---- MODULE Spec2Model ----
(***************************************************************************)
(* Model of the multimodal policy auditor: the Streamlit serving script    *)
(* (src/app.py) and the offline indexing script (src/create_db.py).        *)
(*                                                                         *)
(* Text is a sequence of one-character strings.  A browser session runs    *)
(* the script top to bottom on every interaction; the script blocks at     *)
(* the external calls (vision model, similarity search, judge model), and  *)
(* those are the points where runs of different sessions interleave.       *)
(***************************************************************************)
EXTENDS Integers, Sequences, FiniteSets, TLC

VARIABLES
    disk,          \* the faiss_index folder: [ok, docs]
    cache,         \* st.cache_resource entry of load_knowledge_base
    loads,         \* number of times the body of load_knowledge_base ran
    pc,            \* per session: position of the current script run
    tab,           \* per session: the tab whose button the user pressed
    text_input,    \* per session: st.text_area value of tab 1
    uploaded,      \* per session: whether the tab's file_uploader holds a file
    pages,         \* per session: page texts of the uploaded PDF
    content,       \* per session: content_to_audit of run_audit
    retrieved,     \* per session: retrieved_docs of run_audit
    rules_text,    \* per session: rules_text of run_audit
    out,           \* per session: elements rendered by the current run
    calls,         \* per session: external calls made by the current run
    policy,        \* create_db: text of safety_policy.txt
    cfg,           \* create_db: [size, overlap] given to the splitter
    chunks,        \* create_db: chunks as [lo, hi] slices of policy
    ipc            \* create_db: position in create_vector_db

appVars == <<cache, loads, pc, tab, text_input, uploaded, pages, content,
             retrieved, rules_text, out, calls>>
idxVars == <<policy, cfg, chunks, ipc>>
vars == <<disk, cache, loads, pc, tab, text_input, uploaded, pages, content,
          retrieved, rules_text, out, calls, policy, cfg, chunks, ipc>>

-----------------------------------------------------------------------------
(* Bounds of the model *)

\* browser sessions running the script concurrently
Sessions == {"s1", "s2"}
\* pages of an uploaded PDF
MaxPages == 2
\* filler characters around the verdict word of a judge response
MaxPad == 1
\* load_knowledge_base executions counted (saturating)
MaxLoads == 2
\* characters of the policy text
MaxPolicyLen == 4
\* largest chunk_size tried
MaxChunkSize == 3

NL == "\n"
SP == " "

\* top-k of the similarity search
K == 3

-----------------------------------------------------------------------------
(* Text helpers *)

RECURSIVE Pad(_)
Pad(n) == IF n = 0 THEN <<>> ELSE <<"x">> \o Pad(n - 1)

RECURSIVE SeqsUpTo(_, _)
SeqsUpTo(S, n) ==
    IF n = 0 THEN {<<>>}
    ELSE LET shorter == SeqsUpTo(S, n - 1)
         IN  shorter \cup {Append(q, x) : q \in shorter, x \in S}

\* Python's `sub in s` on strings
Contains(sub, s) ==
    \E i \in 1..(Len(s) - Len(sub) + 1) : SubSeq(s, i, i + Len(sub) - 1) = sub

FAIL == <<"F", "A", "I", "L">>
PASS == <<"P", "A", "S", "S">>

-----------------------------------------------------------------------------
(* Inputs *)

\* the button pressed in an interaction; "none" when the rerun has another
\* cause (page opened, widget edited)
Tabs == {"none", "text", "pdf", "img"}
Texts == {<<>>, <<SP>>, <<"a", "b">>}

\* A PDF is the sequence of its pages' extractable texts; page i either has
\* no extractable text or a text of its own.
Letters == <<"a", "b", "c", "d">>
PdfOf(n, S) == [i \in 1..n |-> IF i \in S THEN <<Letters[i]>> ELSE <<>>]
Pdfs == {PdfOf(n, S) : n \in 0..MaxPages, S \in SUBSET (1..MaxPages)}

Descs == {<<"a">>, <<"g", "u", "n">>}

\* Judge responses: a verdict word, bare or inside filler text.
Cores == {PASS, FAIL, <<"F", "A", "I">>, <<"f", "a", "i", "l">>}
Responses == {Pad(i) \o c \o Pad(i) : c \in Cores, i \in {0, MaxPad}}

\* chunk texts of the persisted index, in insertion order
IndexDocs == << <<"a">>, <<"b">>, <<"a", "b">>, <<"g">> >>

NoDisk == [ok |-> FALSE, docs |-> <<>>]
GoodDisk == [ok |-> TRUE, docs |-> IndexDocs]

-----------------------------------------------------------------------------
(* load_knowledge_base and the gate below it *)

Unset == [state |-> "unset", docs |-> <<>>]
None == [state |-> "none", docs |-> <<>>]

\* body of load_knowledge_base: FAISS.load_local or None on any exception
LoadLocal(d) == IF d.ok THEN [state |-> "db", docs |-> d.docs] ELSE None

load_uncached(c, d) == [kb |-> LoadLocal(d), ran |-> TRUE]
\* @st.cache_resource: the body runs only when no entry is cached, and the
\* cached entry (None included) is returned otherwise
load_knowledge_base(c, d) ==
    IF c.state = "unset" THEN [kb |-> LoadLocal(d), ran |-> TRUE]
    ELSE [kb |-> c, ran |-> FALSE]

KbMissingNever(kb) == FALSE
\* `if not knowledge_base`
KbMissing(kb) == kb.state = "none"

\* an element rendered on the page: st.error, st.success, st.info, ...
Elem(kind, text, n) == [kind |-> kind, text |-> text, n |-> n]
\* an external call: the query, the rules context sent, the answer, success
Call(op, q, ctx, res, ok) == [op |-> op, q |-> q, ctx |-> ctx, res |-> res, ok |-> ok]

-----------------------------------------------------------------------------
(* Helper functions of app.py *)

RECURSIVE ExtractLoop(_, _, _)
\* for page in reader.pages: text += page.extract_text()
ExtractLoop(p, i, text) ==
    IF i > Len(p) THEN text ELSE ExtractLoop(p, i + 1, text \o p[i])

extract_last_page(file) == IF Len(file) = 0 THEN <<>> ELSE file[Len(file)]
extract_text_from_pdf(file) == ExtractLoop(file, 1, <<>>)

\* "Error using Vision model: ..." returned by the except branch
VisionError == <<"E", "r", "r">>

\* analyze_image: the description, or the error string when the call raises
analyze_image(ok, desc) == IF ok THEN desc ELSE VisionError

\* similarity of a query and a chunk under the embedder (a fixed function of
\* the two texts): the number of chunk characters that occur in the query
Score(q, doc) ==
    Cardinality({i \in 1..Len(doc) : \E j \in 1..Len(q) : q[j] = doc[i]})

\* the best remaining entry: highest score, earliest inserted among equals
Best(docs, q, taken) ==
    CHOOSE i \in (1..Len(docs)) \ taken :
        \A j \in (1..Len(docs)) \ taken :
            \/ Score(q, docs[i]) > Score(q, docs[j])
            \/ Score(q, docs[i]) = Score(q, docs[j]) /\ i <= j

RECURSIVE Ranked(_, _, _, _)
Ranked(docs, q, taken, k) ==
    IF k = 0 \/ taken = 1..Len(docs) THEN <<>>
    ELSE LET b == Best(docs, q, taken)
         IN  <<docs[b]>> \o Ranked(docs, q, taken \cup {b}, k - 1)

\* knowledge_base.similarity_search(content_to_audit, k=3)
similarity_search(docs, q, k) == Ranked(docs, q, {}, k)

RECURSIVE JoinFrom(_, _)
JoinFrom(ds, i) ==
    IF i > Len(ds) THEN <<>>
    ELSE IF i = Len(ds) THEN ds[i]
    ELSE ds[i] \o <<NL, NL>> \o JoinFrom(ds, i + 1)

JoinReversed(ds) == JoinFrom([i \in 1..Len(ds) |-> ds[Len(ds) + 1 - i]], 1)
\* "\n\n".join([doc.page_content for doc in retrieved_docs])
JoinRules(ds) == JoinFrom(ds, 1)

VerdictKindPrefix(result) ==
    IF Len(result) >= 4 /\ SubSeq(result, 1, 4) = FAIL THEN "error" ELSE "success"
\* if "FAIL" in result: st.error(result) else: st.success(result)
VerdictKind(result) == IF Contains(FAIL, result) THEN "error" ELSE "success"

TextGivenAlways(t) == TRUE
\* `if text_input:`
TextGiven(t) == t /= <<>>

content_shared(s) == content[CHOOSE t \in Sessions : TRUE]
\* the content_to_audit argument of the run_audit frame of session s
content_to_audit(s) == content[s]

-----------------------------------------------------------------------------
(* The serving script *)

Show(s, e) == [out EXCEPT ![s] = Append(@, e)]

OnRaiseDefaultPass(s) == Show(s, Elem("success", PASS, 0))
\* run_audit and its callers have no try/except: an exception of an external
\* call ends the script run and Streamlit renders the exception
OnRaise(s) == Show(s, Elem("exception", <<>>, 0))
Log(s, c) == [calls EXCEPT ![s] = Append(@, c)]
Goto(s, l) == [pc EXCEPT ![s] = l]

\* A user interaction starts a rerun of the script for the session.  Only the
\* widgets of the tab acted on are kept: one button at most is true in a run.
Rerun(s) ==
    /\ pc[s] \in {"new", "idle"}
    /\ \E t \in Tabs, txt \in Texts, up \in BOOLEAN, pg \in Pdfs :
        /\ t = "none" => (txt = <<>> /\ ~up /\ pg = <<>>)
        /\ t = "text" => (~up /\ pg = <<>>)
        /\ t = "pdf" => (txt = <<>> /\ (~up => pg = <<>>))
        /\ t = "img" => (txt = <<>> /\ pg = <<>>)
        /\ tab' = [tab EXCEPT ![s] = t]
        /\ text_input' = [text_input EXCEPT ![s] = txt]
        /\ uploaded' = [uploaded EXCEPT ![s] = up]
        /\ pages' = [pages EXCEPT ![s] = pg]
    /\ pc' = Goto(s, "load")
    /\ content' = [content EXCEPT ![s] = <<>>]
    /\ retrieved' = [retrieved EXCEPT ![s] = <<>>]
    /\ rules_text' = [rules_text EXCEPT ![s] = <<>>]
    /\ out' = [out EXCEPT ![s] = <<>>]
    /\ calls' = [calls EXCEPT ![s] = <<>>]
    /\ UNCHANGED <<disk, cache, loads, idxVars>>

\* lines 30-38: load the index (cached) and stop the run when there is none
LoadDatabase(s) ==
    /\ pc[s] = "load"
    /\ LET l == load_knowledge_base(cache, disk)
       IN  /\ cache' = l.kb
           /\ loads' = IF l.ran /\ loads < MaxLoads THEN loads + 1 ELSE loads
           /\ IF KbMissing(l.kb)
              THEN /\ out' = Show(s, Elem("db_error", <<>>, 0))
                   /\ pc' = Goto(s, "idle")
              ELSE /\ out' = out
                   /\ pc' = Goto(s, "tabs")
    /\ UNCHANGED <<disk, tab, text_input, uploaded, pages, content, retrieved,
                   rules_text, calls, idxVars>>

\* no button is pressed: the tabs are drawn and the run ends
NoButton(s) ==
    /\ pc[s] = "tabs"
    /\ tab[s] = "none"
    /\ pc' = Goto(s, "idle")
    /\ UNCHANGED <<disk, cache, loads, tab, text_input, uploaded, pages,
                   content, retrieved, rules_text, out, calls, idxVars>>

\* tab 1, lines 102-112, up to the call of run_audit
TextAudit(s) ==
    /\ pc[s] = "tabs"
    /\ tab[s] = "text"
    /\ IF TextGiven(text_input[s])
       THEN /\ content' = [content EXCEPT ![s] = text_input[s]]
            /\ pc' = Goto(s, "search")
            /\ out' = out
       ELSE /\ out' = Show(s, Elem("warning", <<>>, 0))
            /\ pc' = Goto(s, "idle")
            /\ content' = content
    /\ UNCHANGED <<disk, cache, loads, tab, text_input, uploaded, pages,
                   retrieved, rules_text, calls, idxVars>>

\* tab 2, lines 116-123, up to the call of run_audit
PdfAudit(s) ==
    /\ pc[s] = "tabs"
    /\ tab[s] = "pdf"
    /\ IF uploaded[s]
       THEN LET pdf_text == extract_text_from_pdf(pages[s])
            IN  /\ out' = Show(s, Elem("info", <<>>, Len(pdf_text)))
                /\ content' = [content EXCEPT ![s] = pdf_text]
                /\ pc' = Goto(s, "search")
       ELSE /\ pc' = Goto(s, "idle")
            /\ UNCHANGED <<out, content>>
    /\ UNCHANGED <<disk, cache, loads, tab, text_input, uploaded, pages,
                   retrieved, rules_text, calls, idxVars>>

\* tab 3, lines 133-141, up to the call of the vision model
ImageAudit(s) ==
    /\ pc[s] = "tabs"
    /\ tab[s] = "img"
    /\ pc' = Goto(s, IF uploaded[s] THEN "vision" ELSE "idle")
    /\ UNCHANGED <<disk, cache, loads, tab, text_input, uploaded, pages,
                   content, retrieved, rules_text, out, calls, idxVars>>

\* tab 3, lines 141-146: the vision call returns or raises inside
\* analyze_image; its return value is shown and handed to run_audit
VisionCall(s) ==
    /\ pc[s] = "vision"
    /\ \E r \in {[ok |-> TRUE, d |-> d] : d \in Descs}
                 \cup {[ok |-> FALSE, d |-> <<>>]} :
        LET visual_description == analyze_image(r.ok, r.d)
        IN  /\ calls' = Log(s, Call("vision", <<>>, <<>>, r.d, r.ok))
            /\ out' = Show(s, Elem("text_area", visual_description, 0))
            /\ content' = [content EXCEPT ![s] = visual_description]
    /\ pc' = Goto(s, "search")
    /\ UNCHANGED <<disk, cache, loads, tab, text_input, uploaded, pages,
                   retrieved, rules_text, idxVars>>

\* run_audit, lines 64-65: the similarity search returns or raises; an
\* exception leaves run_audit and the script run, and Streamlit shows it
SimilaritySearch(s) ==
    /\ pc[s] = "search"
    /\ \E ok \in BOOLEAN :
        IF ok /\ cache.state = "db"
        THEN LET docs == similarity_search(cache.docs, content_to_audit(s), K)
             IN  /\ retrieved' = [retrieved EXCEPT ![s] = docs]
                 /\ rules_text' = [rules_text EXCEPT ![s] = JoinRules(docs)]
                 /\ calls' = Log(s, Call("search", content_to_audit(s), <<>>,
                                         <<>>, TRUE))
                 /\ pc' = Goto(s, "judge")
                 /\ out' = out
        ELSE /\ calls' = Log(s, Call("search", content_to_audit(s), <<>>,
                                     <<>>, FALSE))
             /\ out' = OnRaise(s)
             /\ pc' = Goto(s, "idle")
             /\ UNCHANGED <<retrieved, rules_text>>
    /\ UNCHANGED <<disk, cache, loads, tab, text_input, uploaded, pages,
                   content, idxVars>>

\* run_audit, lines 68-88, and the verdict branch of the calling tab
JudgeCall(s) ==
    /\ pc[s] = "judge"
    /\ \E r \in {[ok |-> TRUE, text |-> t] : t \in Responses}
                 \cup {[ok |-> FALSE, text |-> <<>>]} :
        IF r.ok
        THEN LET result == r.text IN
             /\ calls' = Log(s, Call("judge", content_to_audit(s),
                                     rules_text[s], result, TRUE))
             /\ out' = [out EXCEPT ![s] =
                   @ \o <<Elem(VerdictKind(result), result, 0)>>
                     \o (IF tab[s] = "text"
                         THEN <<Elem("expander", rules_text[s], 0)>>
                         ELSE <<>>)]
        ELSE /\ calls' = Log(s, Call("judge", content_to_audit(s),
                                     rules_text[s], <<>>, FALSE))
             /\ out' = OnRaise(s)
    /\ pc' = Goto(s, "idle")
    /\ UNCHANGED <<disk, cache, loads, tab, text_input, uploaded, pages,
                   content, retrieved, rules_text, idxVars>>

-----------------------------------------------------------------------------
(* create_db.py: RecursiveCharacterTextSplitter(chunk_size, chunk_overlap)  *)
(* applied to the policy text.  A split or chunk is the slice [lo, hi] of   *)
(* the text T (the splitter keeps separators, so every piece is a slice).   *)

Slice(lo, hi) == [lo |-> lo, hi |-> hi]
Size(d) == d.hi - d.lo + 1

\* the splitter's default separators: "\n\n", "\n", " ", ""
Separators == << <<NL, NL>>, <<NL>>, <<SP>>, <<>> >>

IsSpace(c) == c \in {SP, NL}

RECURSIVE Matches(_, _, _, _)
\* start positions of the non-overlapping occurrences of sep in T[i..hi]
Matches(T, i, hi, sep) ==
    IF i + Len(sep) - 1 > hi THEN <<>>
    ELSE IF SubSeq(T, i, i + Len(sep) - 1) = sep
         THEN <<i>> \o Matches(T, i + Len(sep), hi, sep)
         ELSE Matches(T, i + 1, hi, sep)

\* _split_text_with_regex, keep_separator=True: a separator stays at the
\* start of the piece that follows it; empty pieces are dropped
SplitWithRegex(T, lo, hi, sep) ==
    IF lo > hi THEN <<>>
    ELSE IF sep = <<>> THEN [k \in 1..(hi - lo + 1) |-> Slice(lo + k - 1, lo + k - 1)]
    ELSE LET m == Matches(T, lo, hi, sep)
             starts == IF m /= <<>> /\ m[1] = lo THEN m ELSE <<lo>> \o m
         IN  [k \in 1..Len(starts) |->
                 Slice(starts[k],
                       IF k < Len(starts) THEN starts[k + 1] - 1 ELSE hi)]

RECURSIVE LStrip(_, _, _)
LStrip(T, lo, hi) ==
    IF lo <= hi /\ IsSpace(T[lo]) THEN LStrip(T, lo + 1, hi) ELSE lo

RECURSIVE RStrip(_, _, _)
RStrip(T, lo, hi) ==
    IF lo <= hi /\ IsSpace(T[hi]) THEN RStrip(T, lo, hi - 1) ELSE hi

\* _join_docs: the joined text stripped of whitespace, or nothing when empty
JoinDocs(T, docs) ==
    IF docs = <<>> THEN <<>>
    ELSE LET lo == LStrip(T, docs[1].lo, docs[Len(docs)].hi)
             hi == RStrip(T, lo, docs[Len(docs)].hi)
         IN  IF lo > hi THEN <<>> ELSE <<Slice(lo, hi)>>

PopNone(cur, total, len, cs, ov) == [cur |-> cur, total |-> total]
RECURSIVE PopWhile(_, _, _, _, _)
\* the while loop of _merge_splits: drop leading splits until at most the
\* overlap is kept and the next split fits
PopWhile(cur, total, len, cs, ov) ==
    IF total > ov \/ (total + len > cs /\ total > 0)
    THEN PopWhile(Tail(cur), total - Size(cur[1]), len, cs, ov)
    ELSE [cur |-> cur, total |-> total]

RECURSIVE MergeLoop(_, _, _, _, _, _, _, _)
MergeLoop(T, splits, i, docs, cur, total, cs, ov) ==
    IF i > Len(splits) THEN docs \o JoinDocs(T, cur)
    ELSE LET d == splits[i]
             len == Size(d)
             full == total + len > cs /\ Len(cur) > 0
             emitted == IF full THEN docs \o JoinDocs(T, cur) ELSE docs
             kept == IF full THEN PopWhile(cur, total, len, cs, ov)
                     ELSE [cur |-> cur, total |-> total]
         IN  MergeLoop(T, splits, i + 1, emitted, Append(kept.cur, d),
                       kept.total + len, cs, ov)

\* _merge_splits (the separator between kept splits is empty)
MergeSplits(T, splits, cs, ov) == MergeLoop(T, splits, 1, <<>>, <<>>, 0, cs, ov)

RECURSIVE PickSep(_, _, _, _, _)
\* the first separator that is "" or occurs in the text
PickSep(T, lo, hi, seps, i) ==
    IF i >= Len(seps) THEN Len(seps)
    ELSE IF seps[i] = <<>> \/ Matches(T, lo, hi, seps[i]) /= <<>> THEN i
    ELSE PickSep(T, lo, hi, seps, i + 1)

RECURSIVE SplitText(_, _, _, _, _, _)
RECURSIVE SplitLoop(_, _, _, _, _, _, _, _)
\* the loop of _split_text over the pieces: short pieces are collected and
\* merged, a long piece is split again with the finer separators
SplitLoop(T, splits, i, good, final, newseps, cs, ov) ==
    IF i > Len(splits)
    THEN final \o (IF good /= <<>> THEN MergeSplits(T, good, cs, ov) ELSE <<>>)
    ELSE LET s == splits[i]
         IN  IF Size(s) < cs
             THEN SplitLoop(T, splits, i + 1, Append(good, s), final, newseps, cs, ov)
             ELSE LET flushed == IF good /= <<>>
                                 THEN final \o MergeSplits(T, good, cs, ov)
                                 ELSE final
                      sub == IF newseps = <<>> THEN <<s>>
                             ELSE SplitText(T, s.lo, s.hi, newseps, cs, ov)
                  IN  SplitLoop(T, splits, i + 1, <<>>, flushed \o sub, newseps, cs, ov)

\* RecursiveCharacterTextSplitter._split_text
SplitText(T, lo, hi, seps, cs, ov) ==
    LET k == PickSep(T, lo, hi, seps, 1)
        newseps == IF seps[k] = <<>> THEN <<>> ELSE SubSeq(seps, k + 1, Len(seps))
    IN  SplitLoop(T, SplitWithRegex(T, lo, hi, seps[k]), 1, <<>>, <<>>, newseps, cs, ov)

\* text_splitter.split_documents(documents) for the one loaded document
split_documents(T, cs, ov) == SplitText(T, 1, Len(T), Separators, cs, ov)

ChunkText(T, c) == SubSeq(T, c.lo, c.hi)

PolicyTexts == SeqsUpTo({"a", "b", SP, NL}, MaxPolicyLen)
\* valid splitter settings: 0 < overlap < chunk_size
Cfgs == {c \in [size : 2..MaxChunkSize, overlap : 1..MaxChunkSize] :
            c.overlap < c.size}

\* create_vector_db, lines 10-17: load the policy and split it
SplitPolicy ==
    /\ ipc = "start"
    /\ chunks' = split_documents(policy, cfg.size, cfg.overlap)
    /\ ipc' = "split"
    /\ UNCHANGED <<disk, policy, cfg, appVars>>

\* create_vector_db, lines 19-25: build the index from the chunks and save
\* it; FAISS.from_documents raises on an empty chunk list
BuildAndSave ==
    /\ ipc = "split"
    /\ IF chunks = <<>>
       THEN /\ ipc' = "failed"
            /\ disk' = disk
       ELSE /\ ipc' = "saved"
            /\ disk' = [ok |-> TRUE,
                        docs |-> [i \in 1..Len(chunks) |-> ChunkText(policy, chunks[i])]]
    /\ UNCHANGED <<policy, cfg, chunks, appVars>>

-----------------------------------------------------------------------------
(* Specifications *)

Init ==
    /\ disk \in {NoDisk, GoodDisk}
    /\ cache = Unset
    /\ loads = 0
    /\ pc = [s \in Sessions |-> "new"]
    /\ tab = [s \in Sessions |-> "none"]
    /\ text_input = [s \in Sessions |-> <<>>]
    /\ uploaded = [s \in Sessions |-> FALSE]
    /\ pages = [s \in Sessions |-> <<>>]
    /\ content = [s \in Sessions |-> <<>>]
    /\ retrieved = [s \in Sessions |-> <<>>]
    /\ rules_text = [s \in Sessions |-> <<>>]
    /\ out = [s \in Sessions |-> <<>>]
    /\ calls = [s \in Sessions |-> <<>>]
    /\ policy = <<>>
    /\ cfg = [size |-> 2, overlap |-> 1]
    /\ chunks = <<>>
    /\ ipc = "off"

Next ==
    \E s \in Sessions :
        \/ Rerun(s)
        \/ LoadDatabase(s)
        \/ NoButton(s)
        \/ TextAudit(s)
        \/ PdfAudit(s)
        \/ ImageAudit(s)
        \/ VisionCall(s)
        \/ SimilaritySearch(s)
        \/ JudgeCall(s)

Spec == Init /\ [][Next]_vars

\* the offline indexing script, run on a policy text
InitIndex ==
    /\ disk = NoDisk
    /\ cache = Unset
    /\ loads = 0
    /\ pc = [s \in Sessions |-> "off"]
    /\ tab = [s \in Sessions |-> "none"]
    /\ text_input = [s \in Sessions |-> <<>>]
    /\ uploaded = [s \in Sessions |-> FALSE]
    /\ pages = [s \in Sessions |-> <<>>]
    /\ content = [s \in Sessions |-> <<>>]
    /\ retrieved = [s \in Sessions |-> <<>>]
    /\ rules_text = [s \in Sessions |-> <<>>]
    /\ out = [s \in Sessions |-> <<>>]
    /\ calls = [s \in Sessions |-> <<>>]
    /\ policy \in PolicyTexts
    /\ cfg \in Cfgs
    /\ chunks = <<>>
    /\ ipc = "start"

NextIndex == SplitPolicy \/ BuildAndSave

SpecIndex == InitIndex /\ [][NextIndex]_vars

-----------------------------------------------------------------------------
(* Observations used by the properties *)

Elems(s, kinds) == {i \in 1..Len(out[s]) : out[s][i].kind \in kinds}
Verdicts(s) == Elems(s, {"error", "success"})
CallsOf(s, ops) == {i \in 1..Len(calls[s]) : calls[s][i].op \in ops}
Returned(s, op) == {i \in CallsOf(s, {op}) : calls[s][i].ok}
Raised(s, ops) == {i \in CallsOf(s, ops) : ~calls[s][i].ok}

\* the four letters F, A, I, L at consecutive positions of r
HasFAIL(r) ==
    \E i \in 1..Len(r) :
        /\ i + 3 <= Len(r)
        /\ r[i] = "F" /\ r[i + 1] = "A" /\ r[i + 2] = "I" /\ r[i + 3] = "L"

-----------------------------------------------------------------------------
(* C1 *)

\* C1: in every tab, a verdict element shows a judge response r as FAIL
\* (st.error) exactly when the letters FAIL occur somewhere in r and as PASS
\* (st.success) otherwise, and a run whose judge call returned shows exactly
\* one verdict element, carrying that response.
C1_VerdictIffFail ==
    \A s \in Sessions :
        /\ \A i \in Verdicts(s) :
              (out[s][i].kind = "error") <=> HasFAIL(out[s][i].text)
        /\ \A j \in Returned(s, "judge") :
              /\ Cardinality(Verdicts(s)) = 1
              /\ \A i \in Verdicts(s) : out[s][i].text = calls[s][j].res

\* an image audit shown as FAIL for a response with FAIL inside filler text,
\* next to a text audit shown as PASS for the response PASS
C1_Witness ==
    \E s, t \in Sessions :
        /\ tab[s] = "img" /\ tab[t] = "text"
        /\ \E i \in Verdicts(s) :
              /\ out[s][i].kind = "error"
              /\ out[s][i].text = Pad(MaxPad) \o FAIL \o Pad(MaxPad)
        /\ \E i \in Verdicts(t) :
              out[t][i].kind = "success" /\ out[t][i].text = PASS

-----------------------------------------------------------------------------
(* C2 *)

\* normalization failed in the current run of s: the vision call raised, or
\* the uploaded PDF gave no text
NormalizationFailed(s) ==
    \/ Raised(s, {"vision"}) /= {}
    \/ \E i \in Elems(s, {"info"}) : out[s][i].n = 0

\* C2: a run whose normalization failed makes no similarity search and no
\* judge call and never shows a PASS verdict.
C2_ShortCircuit ==
    \A s \in Sessions :
        NormalizationFailed(s) =>
            /\ CallsOf(s, {"search", "judge"}) = {}
            /\ \A i \in Verdicts(s) : out[s][i].kind /= "success"

-----------------------------------------------------------------------------
(* C3 *)

\* C3: a PASS verdict shows the response of a judge call of the same run that
\* returned; a run whose similarity search or judge call raised has ended,
\* shows the exception and shows no verdict.
C3_PassOnlyFromJudge ==
    \A s \in Sessions :
        /\ \A i \in Elems(s, {"success"}) :
              \E j \in Returned(s, "judge") : calls[s][j].res = out[s][i].text
        /\ Raised(s, {"search", "judge"}) /= {} =>
              /\ Verdicts(s) = {}
              /\ Elems(s, {"exception"}) /= {}
              /\ pc[s] = "idle"

\* one run ended by a failed judge call, another by a failed search
C3_Witness ==
    \E s, t \in Sessions :
        /\ Raised(s, {"judge"}) /= {} /\ Returned(s, "search") /= {}
        /\ Raised(t, {"search"}) /= {}
        /\ pc[s] = "idle" /\ pc[t] = "idle"

-----------------------------------------------------------------------------
(* C4 *)

\* C4: once the load has failed (None is cached), every run stops at the
\* gate with the database error: no run reaches the tabs, makes an external
\* call or shows anything else; and a failed load never yields an index.
C4_NoServeWithoutIndex ==
    /\ ~disk.ok => cache.state \in {"unset", "none"}
    /\ cache.state = "none" =>
          \A s \in Sessions :
              /\ pc[s] \in {"new", "load", "idle"}
              /\ pc[s] = "idle" => out[s] = <<Elem("db_error", <<>>, 0)>>
              /\ pc[s] /= "idle" => out[s] = <<>>
              /\ calls[s] = <<>>

\* the load failed and both sessions' runs were stopped with the error
C4_Witness ==
    /\ cache.state = "none"
    /\ \A s \in Sessions :
          pc[s] = "idle" /\ tab[s] /= "none" /\ Elems(s, {"db_error"}) /= {}

-----------------------------------------------------------------------------
(* C5 *)

\* the pressed tab's required input is missing
MissingInput(s) ==
    \/ tab[s] = "text" /\ text_input[s] = <<>>
    \/ tab[s] \in {"pdf", "img"} /\ ~uploaded[s]

\* C5: a run whose required input is missing never extracts, describes,
\* searches or judges, and shows no verdict.
C5_MissingInputRejected ==
    \A s \in Sessions :
        MissingInput(s) =>
            /\ calls[s] = <<>>
            /\ pc[s] \in {"new", "load", "tabs", "idle"}
            /\ Elems(s, {"info", "text_area", "error", "success",
                         "expander", "exception"}) = {}

\* an empty text audit ended with the warning, a PDF audit without a file
\* ended with nothing shown, both with the index loaded
C5_Witness ==
    \E s, t \in Sessions :
        /\ cache.state = "db"
        /\ tab[s] = "text" /\ text_input[s] = <<>> /\ pc[s] = "idle"
        /\ out[s] = <<Elem("warning", <<>>, 0)>>
        /\ tab[t] = "pdf" /\ ~uploaded[t] /\ pc[t] = "idle" /\ out[t] = <<>>

-----------------------------------------------------------------------------
(* C6 *)

RECURSIVE Offset(_, _)
\* number of characters on the pages before page i
Offset(p, i) == IF i <= 1 THEN 0 ELSE Offset(p, i - 1) + Len(p[i - 1])

\* t is the pages' texts one after the other
IsConcatenation(p, t) ==
    /\ Len(t) = Offset(p, Len(p) + 1)
    /\ \A i \in 1..Len(p) : \A j \in 1..Len(p[i]) : t[Offset(p, i) + j] = p[i][j]

\* C6: after the PDF tab extracted the text, the text handed to run_audit is
\* the pages' texts in page order (an empty page adds nothing), the count
\* shown is its length, and the search and the judge receive that text.
C6_PdfConcatenation ==
    \A s \in Sessions :
        tab[s] = "pdf" /\ Elems(s, {"info"}) /= {} =>
            /\ IsConcatenation(pages[s], content[s])
            /\ \A i \in Elems(s, {"info"}) : out[s][i].n = Len(content[s])
            /\ \A j \in CallsOf(s, {"search", "judge"}) :
                  calls[s][j].q = content[s]

\* a PDF whose first page has no text and whose second has: one character
\* reported, and the second page's text judged
C6_Witness ==
    \E s \in Sessions :
        /\ tab[s] = "pdf"
        /\ Len(pages[s]) = 2 /\ pages[s][1] = <<>> /\ pages[s][2] /= <<>>
        /\ \E i \in Elems(s, {"info"}) : out[s][i].n = 1
        /\ \E j \in Returned(s, "judge") : calls[s][j].q = pages[s][2]

-----------------------------------------------------------------------------
(* C7 *)

\* the text a run audits, from the session's own input and its own vision
\* answer
OwnContent(s) ==
    CASE tab[s] = "text" -> text_input[s]
      [] tab[s] = "pdf" -> extract_text_from_pdf(pages[s])
      [] tab[s] = "img" ->
            LET v == CHOOSE i \in CallsOf(s, {"vision"}) : TRUE
            IN  IF calls[s][v].ok THEN calls[s][v].res ELSE VisionError
      [] OTHER -> <<>>

\* C7: whatever the other sessions do, the search of a run is asked with the
\* run's own content, the judge is asked with that content and the rules the
\* loaded index ranks for it, and the verdict shown is that of the judge's
\* answer to this run.
C7_Independent ==
    \A s \in Sessions :
        /\ \A j \in CallsOf(s, {"search", "judge"}) : calls[s][j].q = OwnContent(s)
        /\ \A j \in CallsOf(s, {"judge"}) :
              calls[s][j].ctx =
                  JoinRules(similarity_search(cache.docs, OwnContent(s), K))
        /\ \A j \in Returned(s, "judge") : \A i \in Verdicts(s) :
              /\ out[s][i].text = calls[s][j].res
              /\ out[s][i].kind = VerdictKind(calls[s][j].res)

\* two audits in flight together on different contents with different rules
C7_Witness ==
    \E s, t \in Sessions :
        /\ pc[s] = "judge" /\ pc[t] = "judge"
        /\ content[s] /= content[t]
        /\ rules_text[s] /= rules_text[t]

-----------------------------------------------------------------------------
(* C9 *)

\* ds is the top-k of the index for q: k entries (or all), no entry twice,
\* scores not increasing, and nothing left out that scores higher
IsTopK(ds, docs, q, k) ==
    /\ Len(ds) = IF k < Len(docs) THEN k ELSE Len(docs)
    /\ \A i \in 1..Len(ds) : \E n \in 1..Len(docs) : docs[n] = ds[i]
    /\ \A i, j \in 1..Len(ds) : i < j =>
          ds[i] /= ds[j] /\ Score(q, ds[i]) >= Score(q, ds[j])
    /\ \A n \in 1..Len(docs) :
          (\A i \in 1..Len(ds) : ds[i] /= docs[n]) =>
              \A i \in 1..Len(ds) : Score(q, ds[i]) >= Score(q, docs[n])

\* the texts in order with a blank line between neighbours, for up to K texts
RankedJoin(ds) ==
    CASE Len(ds) = 0 -> <<>>
      [] Len(ds) = 1 -> ds[1]
      [] Len(ds) = 2 -> ds[1] \o <<NL, NL>> \o ds[2]
      [] OTHER -> ds[1] \o <<NL, NL>> \o ds[2] \o <<NL, NL>> \o ds[3]

\* C9: a run makes at most one similarity search and at most one judge call;
\* the judge call comes after a search that returned, with the rules text
\* joined from the top-3 chunks in ranked order; a call that raised is the
\* run's last call and the run has ended.
C9_AuditOrder ==
    \A s \in Sessions :
        /\ Cardinality(CallsOf(s, {"search"})) <= 1
        /\ Cardinality(CallsOf(s, {"judge"})) <= 1
        /\ \A j \in CallsOf(s, {"judge"}) :
              /\ \E i \in Returned(s, "search") : i < j
              /\ IsTopK(retrieved[s], cache.docs, calls[s][j].q, K)
              /\ calls[s][j].ctx = RankedJoin(retrieved[s])
        /\ pc[s] = "judge" => Returned(s, "search") /= {}
        /\ \A i \in Raised(s, {"search", "judge"}) :
              i = Len(calls[s]) /\ pc[s] = "idle"

\* a finished audit: the search, then one judge call with three rules joined
C9_Witness ==
    \E s \in Sessions :
        /\ pc[s] = "idle"
        /\ Len(retrieved[s]) = K
        /\ retrieved[s][1] /= retrieved[s][K]
        /\ Returned(s, "search") /= {} /\ Returned(s, "judge") /= {}
        /\ \E j \in Returned(s, "judge") : Len(calls[s][j].ctx) > K

-----------------------------------------------------------------------------
(* C10 *)

\* C10: the body of load_knowledge_base runs at most once and only while
\* nothing is cached; the cached index never changes afterwards, the index
\* on disk is never written, and every retrieved chunk is a chunk of the
\* cached index.
C10_LoadedOnceReadOnly ==
    [][ /\ loads' <= 1
        /\ loads' /= loads => cache.state = "unset"
        /\ cache.state /= "unset" => cache' = cache
        /\ disk' = disk
        /\ \A s \in Sessions : \A i \in 1..Len(retrieved'[s]) :
              \E n \in 1..Len(cache'.docs) : cache'.docs[n] = retrieved'[s][i]
      ]_vars

\* the index was loaded once and both sessions finished an audit on it
C10_Witness ==
    /\ loads = 1
    /\ cache.state = "db"
    /\ \A s \in Sessions : pc[s] = "idle" /\ Returned(s, "judge") /= {}

-----------------------------------------------------------------------------
(* C8 *)

Covered(T, cs) == {n \in 1..Len(T) : \E i \in 1..Len(cs) : cs[i].lo <= n /\ n <= cs[i].hi}

\* characters shared by chunk i and chunk i + 1
Overlap(cs, i) ==
    IF cs[i].hi >= cs[i + 1].lo THEN cs[i].hi - cs[i + 1].lo + 1 ELSE 0

\* C8 as first stated: the chunks cover the whole text without gaps, every
\* consecutive pair but possibly the last overlaps by exactly the overlap,
\* and no chunk is longer than chunk_size
C8_ExactOverlapCover ==
    ipc /= "start" =>
        /\ Covered(policy, chunks) = 1..Len(policy)
        /\ \A i \in 1..(Len(chunks) - 2) : Overlap(chunks, i) = cfg.overlap
        /\ \A i \in 1..Len(chunks) : Size(chunks[i]) <= cfg.size

\* C8: the chunks are non-empty slices of the text, in text order, none
\* longer than chunk_size; consecutive chunks overlap by at most the overlap;
\* every character outside all chunks is whitespace.
C8_BoundedOverlapCover ==
    ipc /= "start" =>
        /\ \A i \in 1..Len(chunks) :
              /\ 1 <= chunks[i].lo /\ chunks[i].lo <= chunks[i].hi
              /\ chunks[i].hi <= Len(policy)
              /\ Size(chunks[i]) <= cfg.size
        /\ \A i \in 1..(Len(chunks) - 1) :
              /\ chunks[i].lo <= chunks[i + 1].lo
              /\ chunks[i].hi <= chunks[i + 1].hi
              /\ Overlap(chunks, i) <= cfg.overlap
        /\ \A n \in (1..Len(policy)) \ Covered(policy, chunks) : IsSpace(policy[n])

\* a saved index of three chunks or more: a blank of the policy lies in no
\* chunk, two neighbours share no character and two others share exactly
\* the overlap
C8_Witness ==
    /\ ipc = "saved"
    /\ Len(chunks) >= 3
    /\ \E n \in 1..Len(policy) : n \notin Covered(policy, chunks)
    /\ \E i \in 1..(Len(chunks) - 1) : Overlap(chunks, i) = 0
    /\ \E i \in 1..(Len(chunks) - 1) : Overlap(chunks, i) = cfg.overlap

====
